---- MODULE Spec2Model ----
(***************************************************************************)
(* SimpleEQ (JUCE plugin): the lock-free block FIFO (Fifo<T> over          *)
(* juce::AbstractFifo), the per-channel sample collector                   *)
(* (SingleChannelSampleFifo), the cut-filter cascades and the coefficient  *)
(* update path of SimpleEQAudioProcessor.                                  *)
(*                                                                         *)
(* juce::AbstractFifo is library code; it is modelled as JUCE implements   *)
(* it (juce_AbstractFifo.cpp):                                             *)
(*   prepareToWrite: vs = validStart; ve = validEnd;                       *)
(*     freeSpace = ve >= vs ? bufferSize - (ve - vs) : vs - ve;            *)
(*     numToWrite = jmin(numToWrite, freeSpace - 1); ...                   *)
(*   finishedWrite(n): newEnd = validEnd + n; wrap at bufferSize           *)
(*   prepareToRead: numReady = ve >= vs ? ve - vs : bufferSize - (vs - ve) *)
(*   finishedRead(n): newStart = validStart + n; wrap at bufferSize        *)
(* fifo.write(1) / fifo.read(1) build a ScopedWrite / ScopedRead: the      *)
(* constructor runs prepareToWrite / prepareToRead, the destructor (at the *)
(* return of push / pull) runs finishedWrite / finishedRead with           *)
(* blockSize1 + blockSize2.                                                *)
(***************************************************************************)
EXTENDS Integers, Sequences, FiniteSets, TLC

\* ------------------------------------------------------------------ bounds
\* Fifo<T>::Capacity (PluginProcessor.h:47)
Capacity == 30
\* push / pull calls explored per behaviour of the FIFO specifications
MaxCalls == 32
\* largest samplesPerBlock handed to SingleChannelSampleFifo::prepare
MaxBlockSize == 3
\* samples fed to a collector between two prepare calls
MaxFed == 10
\* largest buffer.getNumSamples() of one update call
MaxCallSamples == 7
\* blocks the display pulls from a collector in one behaviour
MaxDrained == 2
\* changes made to the parameters in one behaviour
MaxParamChanges == 2
\* blocks the audio thread pushes while timerCallback runs step by step
MaxDrainPushes == 4

\* ------------------------------------------------------------------- state
VARIABLES
    \* juce::AbstractFifo fifo {Capacity}
    validStart, validEnd,
    \* std::array<T, Capacity> buffers
    buffers,
    \* the caller's block handed to pull (tempIncomingBuffer)
    out,
    \* history of the calls made on the Fifo
    pushCalls, pushOKs, pullCalls, pullOKs, pushedSeq, pulledSeq, mixed,
    \* result of the last completed call: [op, ret, kept]
    lastCall,
    \* producer thread inside Fifo::push: position, validStart as loaded by
    \* prepareToWrite, the ScopedWrite
    pPc, pVs, pWrite,
    \* consumer thread inside Fifo::pull: position, validStart as loaded by
    \* prepareToRead, the ScopedRead
    cPc, cVs, cRead,
    \* slots a completed push has published and no completed pull has released
    published,
    \* SingleChannelSampleFifo: fifoIndex, bufferToFill, prepared, size (its
    \* audioBufferFifo is validStart / validEnd / buffers)
    fifoIndex, bufferToFill, prepared, size,
    \* getAudioBuffer calls made by the display
    cDrained,
    \* since the last prepare: samples fed, update calls (0, 1, 2 = several),
    \* pushes of a block the collector made, pushes the FIFO refused
    cFed, cCalls, cPushes, cDrops,
    \* the coefficient objects (IIR::Coefficients) the filter stages point to
    heap,
    \* leftChain, rightChain: per stage the coefficients pointer and the
    \* bypass flag
    chains,
    \* per cascade position, the latest updateCutFilter call on leftChain
    lastCut,
    \* the raw parameter values of the AudioProcessorValueTreeState
    apvts,
    \* AudioProcessor::getSampleRate()
    sampleRate,
    \* the channels of the main bus, which is the number of channels of the
    \* buffer handed to processBlock
    numChannels,
    \* audio thread: position in processBlock, its chainSettings snapshot
    aPc, aSettings,
    \* message thread: position in setStateInformation, its chainSettings
    mPc, mSettings,
    \* the audio buffer of the block in processBlock: per channel, the chain
    \* that filtered it ("input" before filtering)
    buffer,
    \* per collector, the buffer channel content it was last fed
    collected,
    \* number of changes made to the parameters so far, and the number the
    \* snapshot of each thread was taken at
    paramVersion, aVer, mVer,
    \* per chain position, the number of the snapshot last written into it
    writtenBy,
    \* the jasserts that failed
    jasserts,
    \* ResponseCurveComponent: it exists (constructed, listening to the
    \* parameters, timer running), parametersChanged, monoChain, the
    \* magnitudes of the last paint
    editor, parametersChanged, monoChain, magnitudes,
    \* message thread inside timerCallback: position
    dPc,
    \* notifications since the last compareAndSetBool (0, 1, 2 = several)
    notified,
    \* the running or last timerCallback: [ran, flag found by
    \* compareAndSetBool, notifications it had been preceded by, updateChain
    \* calls made]
    dRun

vars == <<validStart, validEnd, buffers, out,
          pushCalls, pushOKs, pullCalls, pullOKs, pushedSeq, pulledSeq, mixed,
          lastCall, pPc, pVs, pWrite, cPc, cVs, cRead, published,
          fifoIndex, bufferToFill, prepared, size, cDrained,
          cFed, cCalls, cPushes, cDrops, heap, chains, lastCut,
          apvts, sampleRate, numChannels, aPc, aSettings, mPc, mSettings,
          buffer, collected,
          paramVersion, aVer, mVer, writtenBy, jasserts,
          editor, parametersChanged, monoChain, magnitudes, dPc, notified,
          dRun>>

procVars == <<apvts, sampleRate, numChannels, aPc, aSettings, mPc, mSettings,
              buffer,
              collected, paramVersion, aVer, mVer, writtenBy, jasserts>>

dispVars == <<editor, parametersChanged, monoChain, magnitudes, dPc, notified,
              dRun>>

chainVars == <<heap, chains, lastCut>>

collVars == <<fifoIndex, bufferToFill, prepared, size, cDrained,
              cFed, cCalls, cPushes, cDrops>>

spscVars == <<pPc, pVs, pWrite, cPc, cVs, cRead, published>>

fifoVars == <<validStart, validEnd, buffers, out>>
histVars == <<pushCalls, pushOKs, pullCalls, pullOKs, pushedSeq, pulledSeq,
              mixed, lastCall>>

Slots == 0 .. (Capacity - 1)

jmin(a, b) == IF a < b THEN a ELSE b

\* ---------------------------------------------------- juce::AbstractFifo
\* AbstractFifo::getNumReady
getNumReady(vs, ve) ==
    IF ve >= vs THEN ve - vs ELSE Capacity - (vs - ve)

\* prepareToWrite handing out the last free slot too (no "freeSpace - 1")
prepareToWrite_NoGap(numToWrite, vs, ve) ==
    LET freeSpace == IF ve >= vs THEN Capacity - (ve - vs) ELSE vs - ve
        n == jmin(numToWrite, freeSpace)
    IN  IF n <= 0
        THEN [startIndex1 |-> 0, blockSize1 |-> 0,
              startIndex2 |-> 0, blockSize2 |-> 0]
        ELSE [startIndex1 |-> ve, blockSize1 |-> jmin(Capacity - ve, n),
              startIndex2 |-> 0, blockSize2 |-> 0]

\* AbstractFifo::prepareToWrite (numToWrite, startIndex1, blockSize1, ...)
prepareToWrite(numToWrite, vs, ve) ==
    LET freeSpace == IF ve >= vs THEN Capacity - (ve - vs) ELSE vs - ve
        n == jmin(numToWrite, freeSpace - 1)
    IN  IF n <= 0
        THEN [startIndex1 |-> 0, blockSize1 |-> 0,
              startIndex2 |-> 0, blockSize2 |-> 0]
        ELSE LET b1 == jmin(Capacity - ve, n)
                 rest == n - b1
             IN  [startIndex1 |-> ve, blockSize1 |-> b1,
                  startIndex2 |-> 0,
                  blockSize2 |-> IF rest <= 0 THEN 0 ELSE jmin(rest, vs)]

\* AbstractFifo::finishedWrite (numWritten): the new validEnd
finishedWrite(ve, numWritten) ==
    LET newEnd == ve + numWritten
    IN  IF newEnd >= Capacity THEN newEnd - Capacity ELSE newEnd

\* prepareToRead handing out a slot without looking at numReady
prepareToRead_NoEmptyCheck(numWanted, vs, ve) ==
    [startIndex1 |-> vs, blockSize1 |-> jmin(Capacity - vs, numWanted),
     startIndex2 |-> 0, blockSize2 |-> 0]

\* AbstractFifo::prepareToRead (numWanted, startIndex1, blockSize1, ...)
prepareToRead(numWanted, vs, ve) ==
    LET numReady == IF ve >= vs THEN ve - vs ELSE Capacity - (vs - ve)
        n == jmin(numWanted, numReady)
    IN  IF n <= 0
        THEN [startIndex1 |-> 0, blockSize1 |-> 0,
              startIndex2 |-> 0, blockSize2 |-> 0]
        ELSE LET b1 == jmin(Capacity - vs, n)
                 rest == n - b1
             IN  [startIndex1 |-> vs, blockSize1 |-> b1,
                  startIndex2 |-> 0,
                  blockSize2 |-> IF rest <= 0 THEN 0 ELSE jmin(rest, ve)]

\* finishedRead without the wrap-around of validStart
finishedRead_NoWrap(vs, numRead) == vs + numRead

\* finishedRead that leaves validStart where it is
finishedRead_KeepsStart(vs, numRead) == vs

\* AbstractFifo::finishedRead (numRead): the new validStart
finishedRead(vs, numRead) ==
    LET newStart == vs + numRead
    IN  IF newStart >= Capacity THEN newStart - Capacity ELSE newStart

\* ------------------------------------------------------------- Fifo<T>
\* Fifo::getNumAvailableForReading
getNumAvailableForReading == getNumReady(validStart, validEnd)

\* Fifo::push as a function of the FIFO state f = [vs, ve, buffers]:
\* the state after the call and the value returned
FifoPush(f, t) ==
    LET write == prepareToWrite(1, f.vs, f.ve)
        done == finishedWrite(f.ve, write.blockSize1 + write.blockSize2)
    IN  IF write.blockSize1 > 0
        THEN [vs |-> f.vs, ve |-> done,
              buffers |-> [f.buffers EXCEPT ![write.startIndex1] = t],
              ret |-> TRUE]
        ELSE [vs |-> f.vs, ve |-> done, buffers |-> f.buffers, ret |-> FALSE]

\* Fifo::pull as a function of the FIFO state and the caller's block o
FifoPull(f, o) ==
    LET read == prepareToRead(1, f.vs, f.ve)
        done == finishedRead(f.vs, read.blockSize1 + read.blockSize2)
    IN  IF read.blockSize1 > 0
        THEN [vs |-> done, ve |-> f.ve, buffers |-> f.buffers,
              out |-> f.buffers[read.startIndex1], ret |-> TRUE]
        ELSE [vs |-> done, ve |-> f.ve, buffers |-> f.buffers,
              out |-> o, ret |-> FALSE]

FifoState == [vs |-> validStart, ve |-> validEnd, buffers |-> buffers]

\* the i-th block handed to push: b1, b2, ...
Blk(i) == <<i>>

\* the Fifo after construction: empty AbstractFifo, default-constructed blocks
InitFifo ==
    /\ validStart = 0
    /\ validEnd = 0
    /\ buffers = [i \in Slots |-> <<>>]
    /\ out = <<>>

InitHist ==
    /\ pushCalls = 0
    /\ pushOKs = 0
    /\ pullCalls = 0
    /\ pullOKs = 0
    /\ pushedSeq = <<>>
    /\ pulledSeq = <<>>
    /\ mixed = FALSE
    /\ lastCall = [op |-> "none", ret |-> FALSE, kept |-> TRUE]

\* one whole call of Fifo::push (producer), with block b_(pushCalls + 1)
Push ==
    /\ pushCalls < MaxCalls
    /\ LET t == Blk(pushCalls + 1)
           r == FifoPush(FifoState, t)
       IN  /\ validStart' = r.vs
           /\ validEnd' = r.ve
           /\ buffers' = r.buffers
           /\ out' = out
           /\ pushCalls' = pushCalls + 1
           /\ pushOKs' = IF r.ret THEN pushOKs + 1 ELSE pushOKs
           /\ pushedSeq' = IF r.ret THEN Append(pushedSeq, t) ELSE pushedSeq
           /\ mixed' = (mixed \/ pullCalls > 0)
           /\ lastCall' = [op |-> "push", ret |-> r.ret,
                           kept |-> /\ r.vs = validStart
                                    /\ r.ve = validEnd
                                    /\ r.buffers = buffers
                                    /\ getNumReady(r.vs, r.ve)
                                         = getNumAvailableForReading]
    /\ UNCHANGED <<pullCalls, pullOKs, pulledSeq>>

\* one whole call of Fifo::pull (consumer) into the caller's block
Pull ==
    /\ pullCalls < MaxCalls
    /\ LET r == FifoPull(FifoState, out)
       IN  /\ validStart' = r.vs
           /\ validEnd' = r.ve
           /\ buffers' = r.buffers
           /\ out' = r.out
           /\ pullCalls' = pullCalls + 1
           /\ pullOKs' = IF r.ret THEN pullOKs + 1 ELSE pullOKs
           /\ pulledSeq' = IF r.ret THEN Append(pulledSeq, r.out) ELSE pulledSeq
           /\ lastCall' = [op |-> "pull", ret |-> r.ret,
                           kept |-> /\ r.vs = validStart
                                    /\ r.ve = validEnd
                                    /\ r.buffers = buffers
                                    /\ r.out = out]
    /\ UNCHANGED <<pushCalls, pushOKs, pushedSeq, mixed>>

\* ------------------------------------- Fifo<T>, one step at a time (SPSC)
NoBlock == [startIndex1 |-> 0, blockSize1 |-> 0,
            startIndex2 |-> 0, blockSize2 |-> 0]

\* a block whose copy has started and not finished. The blocks are numbered
\* by the pushes that succeeded: the block being pushed is b_(pushOKs + 1)
Torn == <<-1>>

InitSpsc ==
    /\ pPc = "idle"
    /\ pVs = 0
    /\ pWrite = NoBlock
    /\ cPc = "idle"
    /\ cVs = 0
    /\ cRead = NoBlock
    /\ published = {}

\* push: fifo.write(1) starts; prepareToWrite loads validStart
P_Begin ==
    /\ pPc = "idle"
    /\ pushOKs < MaxCalls
    /\ pVs' = validStart
    /\ pPc' = "prep"
    /\ UNCHANGED <<fifoVars, histVars, pWrite, cPc, cVs, cRead, published>>

\* push: prepareToWrite loads validEnd and reserves the slot
P_Reserve ==
    /\ pPc = "prep"
    /\ pWrite' = prepareToWrite(1, pVs, validEnd)
    /\ pPc' = IF pWrite'.blockSize1 > 0 THEN "copy" ELSE "finish"
    /\ UNCHANGED <<fifoVars, histVars, pVs, cPc, cVs, cRead, published>>

\* push: buffers[write.startIndex1] = t, the copy starts
P_CopyBegin ==
    /\ pPc = "copy"
    /\ buffers' = [buffers EXCEPT ![pWrite.startIndex1] = Torn]
    /\ pPc' = "copying"
    /\ UNCHANGED <<validStart, validEnd, out, histVars, pVs, pWrite,
                   cPc, cVs, cRead, published>>

\* push: buffers[write.startIndex1] = t, the copy is complete
P_CopyEnd ==
    /\ pPc = "copying"
    /\ buffers' = [buffers EXCEPT ![pWrite.startIndex1] = Blk(pushOKs + 1)]
    /\ pPc' = "finish"
    /\ UNCHANGED <<validStart, validEnd, out, histVars, pVs, pWrite,
                   cPc, cVs, cRead, published>>

\* push returns: ~ScopedWrite runs finishedWrite
P_Finish ==
    /\ pPc = "finish"
    /\ validEnd' = finishedWrite(validEnd, pWrite.blockSize1 + pWrite.blockSize2)
    /\ pushOKs' = IF pWrite.blockSize1 > 0 THEN pushOKs + 1 ELSE pushOKs
    /\ pushedSeq' = IF pWrite.blockSize1 > 0
                    THEN Append(pushedSeq, Blk(pushOKs + 1)) ELSE pushedSeq
    /\ published' = IF pWrite.blockSize1 > 0
                    THEN published \cup {pWrite.startIndex1} ELSE published
    /\ pPc' = "idle"
    /\ pWrite' = NoBlock
    /\ UNCHANGED <<validStart, buffers, out, pushCalls, pullCalls, pullOKs,
                   pulledSeq, mixed, lastCall, pVs, cPc, cVs, cRead>>

\* pull: fifo.read(1) starts; prepareToRead loads validStart
C_Begin ==
    /\ cPc = "idle"
    /\ pullOKs < MaxCalls
    /\ cVs' = validStart
    /\ cPc' = "prep"
    /\ UNCHANGED <<fifoVars, histVars, pPc, pVs, pWrite, cRead, published>>

\* pull: prepareToRead loads validEnd and picks the slot
C_Reserve ==
    /\ cPc = "prep"
    /\ cRead' = prepareToRead(1, cVs, validEnd)
    /\ cPc' = IF cRead'.blockSize1 > 0 THEN "copy" ELSE "finish"
    /\ UNCHANGED <<fifoVars, histVars, pPc, pVs, pWrite, cVs, published>>

\* pull: t = buffers[read.startIndex1], the copy starts
C_CopyBegin ==
    /\ cPc = "copy"
    /\ out' = Torn
    /\ cPc' = "copying"
    /\ UNCHANGED <<validStart, validEnd, buffers, histVars, pPc, pVs, pWrite,
                   cVs, cRead, published>>

\* pull: t = buffers[read.startIndex1], the copy is complete
C_CopyEnd ==
    /\ cPc = "copying"
    /\ out' = buffers[cRead.startIndex1]
    /\ cPc' = "finish"
    /\ UNCHANGED <<validStart, validEnd, buffers, histVars, pPc, pVs, pWrite,
                   cVs, cRead, published>>

\* pull returns: ~ScopedRead runs finishedRead
C_Finish ==
    /\ cPc = "finish"
    /\ validStart' = finishedRead(validStart, cRead.blockSize1 + cRead.blockSize2)
    /\ pullOKs' = IF cRead.blockSize1 > 0 THEN pullOKs + 1 ELSE pullOKs
    /\ pulledSeq' = IF cRead.blockSize1 > 0
                    THEN Append(pulledSeq, out) ELSE pulledSeq
    /\ published' = IF cRead.blockSize1 > 0
                    THEN published \ {cRead.startIndex1} ELSE published
    /\ cPc' = "idle"
    /\ cRead' = NoBlock
    /\ UNCHANGED <<validEnd, buffers, out, pushCalls, pullCalls, pushOKs,
                   pushedSeq, mixed, lastCall, pPc, pVs, pWrite, cVs>>

\* ------------------------------------------- SingleChannelSampleFifo
BlockSizes == 1 .. MaxBlockSize

\* a cleared AudioBuffer of one channel and n samples
Cleared(n) == [i \in 1 .. n |-> 0]

\* the i-th sample fed since prepare
Sample(i) == i

\* SingleChannelSampleFifo after construction
InitCollector ==
    /\ fifoIndex = 0
    /\ bufferToFill = <<>>
    /\ prepared = FALSE
    /\ size = 0
    /\ cDrained = 0
    /\ cFed = 0
    /\ cCalls = 0
    /\ cPushes = 0
    /\ cDrops = 0

\* the collector as a record, for the per-sample loop of update
Collector ==
    [fifoIndex |-> fifoIndex, bufferToFill |-> bufferToFill,
     vs |-> validStart, ve |-> validEnd, buffers |-> buffers,
     pushes |-> cPushes, drops |-> cDrops]

\* pushNextSampleIntoFifo pushing as soon as the block is full
pushNextSampleIntoFifo_Eager(c, sample) ==
    LET c1 == [c EXCEPT !.bufferToFill[c.fifoIndex + 1] = sample,
                        !.fifoIndex = c.fifoIndex + 1]
        r == FifoPush([vs |-> c1.vs, ve |-> c1.ve, buffers |-> c1.buffers],
                      c1.bufferToFill)
    IN  IF c1.fifoIndex = Len(c1.bufferToFill)
        THEN [c1 EXCEPT !.ve = r.ve, !.buffers = r.buffers, !.fifoIndex = 0,
                        !.pushes = @ + 1,
                        !.drops = IF r.ret THEN @ ELSE @ + 1]
        ELSE c1

\* pushNextSampleIntoFifo leaving fifoIndex as it is after the push
pushNextSampleIntoFifo_NoReset(c, sample) ==
    LET r == FifoPush([vs |-> c.vs, ve |-> c.ve, buffers |-> c.buffers],
                      c.bufferToFill)
        c1 == IF c.fifoIndex = Len(c.bufferToFill)
              THEN [c EXCEPT !.ve = r.ve, !.buffers = r.buffers,
                             !.pushes = @ + 1,
                             !.drops = IF r.ret THEN @ ELSE @ + 1]
              ELSE c
    IN  [c1 EXCEPT !.bufferToFill[c1.fifoIndex + 1] = sample,
                   !.fifoIndex = c1.fifoIndex + 1]

\* pushNextSampleIntoFifo resetting fifoIndex only when the push succeeded
pushNextSampleIntoFifo_KeepOnFail(c, sample) ==
    LET r == FifoPush([vs |-> c.vs, ve |-> c.ve, buffers |-> c.buffers],
                      c.bufferToFill)
        c1 == IF c.fifoIndex = Len(c.bufferToFill)
              THEN [c EXCEPT !.ve = r.ve, !.buffers = r.buffers,
                             !.fifoIndex = IF r.ret THEN 0 ELSE @,
                             !.pushes = @ + 1,
                             !.drops = IF r.ret THEN @ ELSE @ + 1]
              ELSE c
    IN  [c1 EXCEPT !.bufferToFill[c1.fifoIndex + 1] = sample,
                   !.fifoIndex = c1.fifoIndex + 1]

\* SingleChannelSampleFifo::pushNextSampleIntoFifo
pushNextSampleIntoFifo(c, sample) ==
    LET r == FifoPush([vs |-> c.vs, ve |-> c.ve, buffers |-> c.buffers],
                      c.bufferToFill)
        c1 == IF c.fifoIndex = Len(c.bufferToFill)
              THEN [c EXCEPT !.ve = r.ve, !.buffers = r.buffers,
                             !.fifoIndex = 0,
                             !.pushes = @ + 1,
                             !.drops = IF r.ret THEN @ ELSE @ + 1]
              ELSE c
    IN  [c1 EXCEPT !.bufferToFill[c1.fifoIndex + 1] = sample,
                   !.fifoIndex = c1.fifoIndex + 1]

\* the loop of update running from the last sample down to the first
RECURSIVE updateLoop_Backwards(_, _, _)
updateLoop_Backwards(c, first, last) ==
    IF first > last THEN c
    ELSE updateLoop_Backwards(pushNextSampleIntoFifo(c, Sample(last)),
                              first, last - 1)

\* the loop of SingleChannelSampleFifo::update over samples first .. last
RECURSIVE updateLoop(_, _, _)
updateLoop(c, first, last) ==
    IF first > last THEN c
    ELSE updateLoop(pushNextSampleIntoFifo(c, Sample(first)), first + 1, last)

\* prepare without "fifoIndex = 0"
prepare_KeepCursor(bufferSize) ==
    /\ size' = bufferSize
    /\ bufferToFill' = Cleared(bufferSize)
    /\ buffers' = [i \in Slots |-> Cleared(bufferSize)]
    /\ fifoIndex' = fifoIndex
    /\ prepared' = TRUE
    /\ cFed' = 0
    /\ cCalls' = 0
    /\ cPushes' = 0
    /\ cDrops' = 0
    /\ UNCHANGED <<validStart, validEnd, out, cDrained>>

\* prepare without the final "prepared.set (true)"
prepare_StaysUnprepared(bufferSize) ==
    /\ size' = bufferSize
    /\ bufferToFill' = Cleared(bufferSize)
    /\ buffers' = [i \in Slots |-> Cleared(bufferSize)]
    /\ fifoIndex' = 0
    /\ prepared' = FALSE
    /\ cFed' = 0
    /\ cCalls' = 0
    /\ cPushes' = 0
    /\ cDrops' = 0
    /\ UNCHANGED <<validStart, validEnd, out, cDrained>>

\* SingleChannelSampleFifo::prepare (bufferSize), with Fifo::prepared
prepare(bufferSize) ==
    /\ size' = bufferSize
    /\ bufferToFill' = Cleared(bufferSize)
    /\ buffers' = [i \in Slots |-> Cleared(bufferSize)]
    /\ fifoIndex' = 0
    /\ prepared' = TRUE
    /\ cFed' = 0
    /\ cCalls' = 0
    /\ cPushes' = 0
    /\ cDrops' = 0
    /\ UNCHANGED <<validStart, validEnd, out, cDrained>>

Prepare ==
    /\ \E bufferSize \in BlockSizes : prepare(bufferSize)
    /\ UNCHANGED <<histVars, spscVars>>

\* SingleChannelSampleFifo::update (buffer) of n = buffer.getNumSamples()
\* samples; jassert (prepared.get())
Update ==
    /\ prepared
    /\ \E n \in 0 .. MaxCallSamples :
          /\ cFed + n <= MaxFed
          /\ LET c == updateLoop(Collector, cFed + 1, cFed + n)
             IN  /\ fifoIndex' = c.fifoIndex
                 /\ bufferToFill' = c.bufferToFill
                 /\ validEnd' = c.ve
                 /\ buffers' = c.buffers
                 /\ cPushes' = c.pushes
                 /\ cDrops' = c.drops
          /\ cFed' = cFed + n
    /\ cCalls' = IF cCalls < 2 THEN cCalls + 1 ELSE cCalls
    /\ UNCHANGED <<validStart, out, prepared, size, cDrained,
                   histVars, spscVars>>

\* SingleChannelSampleFifo::getAudioBuffer (buf): the display pulls a block
GetAudioBuffer ==
    /\ cDrained < MaxDrained
    /\ LET r == FifoPull(FifoState, out)
       IN  /\ validStart' = r.vs
           /\ out' = r.out
    /\ cDrained' = cDrained + 1
    /\ UNCHANGED <<validEnd, buffers, histVars, spscVars, fifoIndex,
                   bufferToFill, prepared, size, cFed, cCalls, cPushes, cDrops>>

\* --------------------------------------------- coefficients and chains
\* enum Slope { Slope_12, Slope_24, Slope_36, Slope_48 }
Slopes == 0 .. 3
\* the stages of a CutFilter = ProcessorChain<Filter, Filter, Filter, Filter>
Stages == 0 .. 3
\* enum ChainPositions
CutPositions == {"LowCut", "HighCut"}
ChainNames == {"left", "right"}

\* the taps of one coefficient object, named by the design that made them
Taps(kind, freq, rate, order, index) ==
    [kind |-> kind, freq |-> freq, rate |-> rate, order |-> order,
     index |-> index, q |-> 0, gain |-> 0]

\* IIR::Filter's default coefficients (pass-through), one object per filter
Unity == Taps("unity", 0, 0, 0, 0)

\* the coefficient object a stage owns since construction
Obj(chain, pos, i) == <<chain, pos, i>>

ObjIds ==
    {Obj(c, p, i) : c \in ChainNames, p \in CutPositions, i \in Stages}
        \cup {Obj(c, "Peak", 0) : c \in ChainNames}

\* struct ChainSettings with its default member values
DefaultChainSettings ==
    [peakFreq |-> 0, peakGainInDecibels |-> 0, peakQuality |-> 1,
     lowCutFreq |-> 0, highCutFreq |-> 0, lowCutSlope |-> 0, highCutSlope |-> 0]

\* FilterDesign::designIIR{Highpass,Lowpass}HighOrderButterworthMethod:
\* order / 2 biquads, after one first-order section when order is odd
designButterworth(kind, frequency, rate, order) ==
    [i \in 1 .. ((order \div 2) + (order % 2)) |->
        Taps(kind, frequency, rate, order, i - 1)]

\* makeLowCutFilter designing all four stages whatever the slope
makeLowCutFilter_FullOrder(chainSettings, rate) ==
    designButterworth("highpass", chainSettings.lowCutFreq, rate, 8)

\* makeLowCutFilter (chainSettings, sampleRate)
makeLowCutFilter(chainSettings, rate) ==
    designButterworth("highpass", chainSettings.lowCutFreq, rate,
                      (chainSettings.lowCutSlope + 1) * 2)

\* makeHighCutFilter (chainSettings, sampleRate)
makeHighCutFilter(chainSettings, rate) ==
    designButterworth("lowpass", chainSettings.highCutFreq, rate,
                      (chainSettings.highCutSlope + 1) * 2)

\* updateCoefficients (old, replacements): *old = *replacements
updateCoefficients(h, old, replacements) ==
    [h EXCEPT ![old] = replacements]

\* a cascade under update: st = [k |-> the cascade, h |-> the coefficient
\* objects, log |-> the writes made so far]
\* chain.setBypassed<Index> (b)
setBypassed(st, Index, b) ==
    [st EXCEPT !.k.bypassed[Index] = b,
               !.log = Append(@, <<"bypass", Index, b>>)]

\* update<Index> that only clears the bypass flag
update_FlagOnly(Index, st, coefficients) ==
    setBypassed(st, Index, FALSE)

\* update<Index> clearing the bypass flag before it writes the coefficients
update_FlagFirst(Index, st, coefficients) ==
    LET s1 == setBypassed(st, Index, FALSE)
    IN  [s1 EXCEPT !.h = updateCoefficients(s1.h, s1.k.coefficients[Index],
                                            coefficients[Index + 1]),
                   !.log = Append(@, <<"coefficients", Index, FALSE>>)]

\* update<Index> (chain, coefficients)
update(Index, st, coefficients) ==
    setBypassed(
        [st EXCEPT !.h = updateCoefficients(st.h, st.k.coefficients[Index],
                                            coefficients[Index + 1]),
                   !.log = Append(@, <<"coefficients", Index, FALSE>>)],
        Index, FALSE)

\* the switch with a break after each case
cutSwitch_NoFallThrough(st, coefficients, slope) ==
    update(slope, st, coefficients)

\* the switch of updateCutFilter: entered at case slope, falling through
cutSwitch(st, coefficients, slope) ==
    LET s3 == IF slope = 3 THEN update(3, st, coefficients) ELSE st
        s2 == IF slope \in {3, 2} THEN update(2, s3, coefficients) ELSE s3
        s1 == IF slope \in {3, 2, 1} THEN update(1, s2, coefficients) ELSE s2
    IN  IF slope \in {3, 2, 1, 0} THEN update(0, s1, coefficients) ELSE s1

\* updateCutFilter without the four setBypassed (true) calls
updateCutFilter_KeepFlags(st, coefficients, slope) ==
    cutSwitch(st, coefficients, slope)

\* updateCutFilter (chain, coefficients, slope)
updateCutFilter(st, coefficients, slope) ==
    cutSwitch(
        setBypassed(setBypassed(setBypassed(setBypassed(st, 0, TRUE),
                                            1, TRUE), 2, TRUE), 3, TRUE),
        coefficients, slope)

\* ProcessorChain / IIR::Filter after construction: no stage bypassed,
\* every filter with its own pass-through coefficients
NewCascade(chain, pos) ==
    [coefficients |-> [i \in Stages |-> Obj(chain, pos, i)],
     bypassed |-> [i \in Stages |-> FALSE]]

NewMonoChain(chain) ==
    [LowCut |-> NewCascade(chain, "LowCut"),
     Peak |-> [coefficients |-> Obj(chain, "Peak", 0), bypassed |-> FALSE],
     HighCut |-> NewCascade(chain, "HighCut")]

NoCut == [called |-> FALSE, slope |-> 0, coefficients |-> <<>>,
          before |-> [i \in Stages |-> Unity], log |-> <<>>]

\* the coefficient objects of the display's mirror chain
MonoObjIds ==
    {Obj("mono", p, i) : p \in CutPositions, i \in Stages}
        \cup {Obj("mono", "Peak", 0)}

InitChains ==
    /\ heap = [o \in ObjIds \cup MonoObjIds |-> Unity]
    /\ chains = [c \in ChainNames |-> NewMonoChain(c)]
    /\ lastCut = [p \in CutPositions |-> NoCut]

\* cutoff frequencies and sample rates of the cascade specification
CutFreqs(pos) == IF pos = "LowCut" THEN {20, 1000} ELSE {20000}
SampleRates == {44100}

\* one call of updateCutFilter on a cascade of leftChain, with coefficients
\* from makeLowCutFilter / makeHighCutFilter
UpdateCutFilterCall ==
    \E pos \in CutPositions, slope \in Slopes, rate \in SampleRates :
      \E freq \in CutFreqs(pos) :
        LET chainSettings ==
                [DefaultChainSettings EXCEPT !.lowCutFreq = freq,
                                             !.highCutFreq = freq,
                                             !.lowCutSlope = slope,
                                             !.highCutSlope = slope]
            coefficients ==
                IF pos = "LowCut" THEN makeLowCutFilter(chainSettings, rate)
                ELSE makeHighCutFilter(chainSettings, rate)
            k == chains["left"][pos]
            st == updateCutFilter([k |-> k, h |-> heap, log |-> <<>>],
                                  coefficients, slope)
        IN  /\ heap' = st.h
            /\ chains' = [chains EXCEPT !["left"][pos] = st.k]
            /\ lastCut' = [lastCut EXCEPT ![pos] =
                              [called |-> TRUE, slope |-> slope,
                               coefficients |-> coefficients,
                               before |-> [i \in Stages |->
                                             heap[k.coefficients[i]]],
                               log |-> st.log]]
            /\ UNCHANGED <<fifoVars, histVars, spscVars, collVars>>

\* ------------------------------------------- SimpleEQAudioProcessor
\* juce::Decibels::decibelsToGain, in thousandths, at the gains used here
decibelsToGain(dB) ==
    CASE dB = 0 -> 1000
      [] dB = 6 -> 1995
      [] dB = -24 -> 63
      [] dB = 24 -> 15849

\* makePeakFilter (chainSettings, sampleRate)
makePeakFilter(chainSettings, rate) ==
    [Taps("peak", chainSettings.peakFreq, rate, 2, 0) EXCEPT
        !.q = chainSettings.peakQuality,
        !.gain = decibelsToGain(chainSettings.peakGainInDecibels)]

\* the default values of createParameterLayout
DefaultParameters ==
    [peakFreq |-> 750, peakGainInDecibels |-> 0, peakQuality |-> 1,
     lowCutFreq |-> 20, highCutFreq |-> 20000,
     lowCutSlope |-> 0, highCutSlope |-> 0]

\* the states a host hands to setStateInformation
StateTrees ==
    {[peakFreq |-> 1000, peakGainInDecibels |-> 6, peakQuality |-> 1,
      lowCutFreq |-> 100, highCutFreq |-> 10000,
      lowCutSlope |-> 1, highCutSlope |-> 0],
     [peakFreq |-> 750, peakGainInDecibels |-> -24, peakQuality |-> 1,
      lowCutFreq |-> 20, highCutFreq |-> 20000,
      lowCutSlope |-> 3, highCutSlope |-> 2]}

\* getChainSettings (apvts)
getChainSettings(a) ==
    [peakFreq |-> a.peakFreq,
     peakGainInDecibels |-> a.peakGainInDecibels,
     peakQuality |-> a.peakQuality,
     lowCutFreq |-> a.lowCutFreq, highCutFreq |-> a.highCutFreq,
     lowCutSlope |-> a.lowCutSlope, highCutSlope |-> a.highCutSlope]

\* updateCutFilter on the cascade pos of the chain c of w = [chains, heap]
updateChainCut(w, c, pos, coefficients, slope) ==
    LET st == updateCutFilter([k |-> w.chains[c][pos], h |-> w.heap,
                               log |-> <<>>], coefficients, slope)
    IN  [chains |-> [w.chains EXCEPT ![c][pos] = st.k], heap |-> st.h]

\* SimpleEQAudioProcessor::updateLowCutFilters
updateLowCutFilters(w, chainSettings, rate) ==
    LET lowCutCoefficients == makeLowCutFilter(chainSettings, rate)
    IN  updateChainCut(
            updateChainCut(w, "left", "LowCut", lowCutCoefficients,
                           chainSettings.lowCutSlope),
            "right", "LowCut", lowCutCoefficients, chainSettings.lowCutSlope)

\* SimpleEQAudioProcessor::updatePeakFilter
updatePeakFilter(w, chainSettings, rate) ==
    LET peakCoefficients == makePeakFilter(chainSettings, rate)
        h1 == updateCoefficients(w.heap, w.chains["left"].Peak.coefficients,
                                 peakCoefficients)
    IN  [w EXCEPT !.heap = updateCoefficients(
                      h1, w.chains["right"].Peak.coefficients,
                      peakCoefficients)]

\* SimpleEQAudioProcessor::updateHighCutFilters
updateHighCutFilters(w, chainSettings, rate) ==
    LET highCutCoefficients == makeHighCutFilter(chainSettings, rate)
    IN  updateChainCut(
            updateChainCut(w, "left", "HighCut", highCutCoefficients,
                           chainSettings.highCutSlope),
            "right", "HighCut", highCutCoefficients,
            chainSettings.highCutSlope)

\* SimpleEQAudioProcessor::updateFilters, run without interruption
updateFilters(w, a, rate) ==
    LET chainSettings == getChainSettings(a)
    IN  updateHighCutFilters(
            updatePeakFilter(
                updateLowCutFilters(w, chainSettings, rate),
                chainSettings, rate),
            chainSettings, rate)

World == [chains |-> chains, heap |-> heap]

\* enum Channel { Right, Left }: the channelToUse of each collector
channelToUse(fifo) == IF fifo = "leftChannelFifo" THEN 1 ELSE 0

\* the sample rates a host announces to prepareToPlay
HostSampleRates == {32000, 44100}

\* the single parameter changes made by the host or a slider: <<id, value>>
ParameterChanges ==
    {<<"lowCutFreq", 1000>>, <<"lowCutSlope", 0>>, <<"lowCutSlope", 2>>,
     <<"peakGainInDecibels", 6>>}

ChainPositions == {"LowCut", "Peak", "HighCut"}

\* the juce::AudioChannelSet values a host offers for the main buses
ChannelSets == {"disabled", "mono", "stereo", "LCR"}

\* AudioChannelSet::size
AudioChannelSetSize(set) ==
    CASE set = "disabled" -> 0
      [] set = "mono" -> 1
      [] set = "stereo" -> 2
      [] set = "LCR" -> 3

\* BusesLayout: the channel sets of the main input and the main output bus
Layouts == [in : ChannelSets, out : ChannelSets]

\* BusesProperties of the constructor: stereo in, stereo out
DefaultLayout == [in |-> "stereo", out |-> "stereo"]

\* SimpleEQAudioProcessor::isBusesLayoutSupported (layouts)
isBusesLayoutSupported(layouts) ==
    IF layouts.out # "mono" /\ layouts.out # "stereo" THEN FALSE
    ELSE IF layouts.out # layouts.in THEN FALSE
    ELSE TRUE

\* the content of channel ch of a buffer b of numChannels channels: what a
\* read finds there; a read past the last channel finds anything
Contents == {"input", "left", "right", "none"}
ReadChannel(b, n, ch) == IF ch < n THEN {b[ch]} ELSE Contents

\* the jasserts of processBlock on the channel indices it uses: AudioBlock::
\* getSingleChannelBlock (0) and (1), and update of each collector
ChannelAsserts(n) ==
    {"getSingleChannelBlock: channel < numChannels" :
        ch \in {c \in {0, 1} : ~(c < n)}}
      \cup {"buffer.getNumChannels() > channelToUse" :
                f \in {g \in {"leftChannelFifo", "rightChannelFifo"} :
                          ~(n > channelToUse(g))}}

InitProcessor ==
    /\ apvts = DefaultParameters
    /\ sampleRate = 0
    /\ numChannels = AudioChannelSetSize(DefaultLayout.out)
    /\ aPc = "idle"
    /\ aSettings = DefaultChainSettings
    /\ mPc = "idle"
    /\ mSettings = DefaultChainSettings
    /\ buffer = [ch \in {0, 1} |-> "input"]
    /\ collected = [f \in {"leftChannelFifo", "rightChannelFifo"} |-> "none"]
    /\ paramVersion = 0
    /\ aVer = 0
    /\ mVer = 0
    /\ writtenBy = [pos \in ChainPositions |-> 0]
    /\ jasserts = {}

\* parameterValueChanged that leaves the flag alone
parameterValueChanged_NoFlag ==
    /\ parametersChanged' = parametersChanged
    /\ notified' = (IF editor /\ notified < 2 THEN notified + 1 ELSE notified)

\* ResponseCurveComponent::parameterValueChanged, called synchronously on
\* the thread that changes a parameter when the component is listening
parameterValueChanged ==
    /\ parametersChanged' = (IF editor THEN TRUE ELSE parametersChanged)
    /\ notified' = (IF editor /\ notified < 2 THEN notified + 1 ELSE notified)

\* the host (automation) or a slider sets one parameter; its listeners are
\* notified
SetParameter ==
    /\ paramVersion < MaxParamChanges
    /\ \E change \in ParameterChanges :
          /\ apvts[change[1]] # change[2]
          /\ apvts' = [apvts EXCEPT ![change[1]] = change[2]]
    /\ paramVersion' = paramVersion + 1
    /\ parameterValueChanged
    /\ UNCHANGED <<sampleRate, numChannels,
                   aPc, aSettings, mPc, mSettings, buffer,
                   collected, aVer, mVer, writtenBy, jasserts,
                   editor, monoChain, magnitudes, dPc, dRun,
                   chainVars, fifoVars, histVars, spscVars, collVars>>

\* prepareToPlay (sampleRate, samplesPerBlock); the host never runs it
\* while processBlock runs
PrepareToPlay ==
    /\ aPc = "idle"
    /\ mPc = "idle"
    /\ \E rate \in HostSampleRates :
          /\ sampleRate' = rate
          /\ LET w == updateFilters(World, apvts, rate)
             IN  /\ chains' = w.chains
                 /\ heap' = w.heap
    /\ writtenBy' = [pos \in ChainPositions |-> paramVersion]
    /\ \E samplesPerBlock \in BlockSizes : prepare(samplesPerBlock)
    /\ UNCHANGED <<apvts, numChannels, aPc, aSettings, mPc, mSettings, buffer, collected,
                   paramVersion, aVer, mVer, jasserts,
                   lastCut, histVars, spscVars, dispVars>>

\* the host sets the layout of the buses while the plugin is not
\* processing: AudioProcessor::setBusesLayout applies a layout that
\* isBusesLayoutSupported accepts and refuses any other
SetBusesLayout ==
    /\ aPc = "idle"
    /\ mPc = "idle"
    /\ \E layouts \in Layouts :
          numChannels' = (IF isBusesLayoutSupported(layouts)
                          THEN AudioChannelSetSize(layouts.out)
                          ELSE numChannels)
    /\ UNCHANGED <<apvts, sampleRate, aPc, aSettings, mPc, mSettings, buffer,
                   collected, paramVersion, aVer, mVer, writtenBy, jasserts,
                   dispVars, chainVars, fifoVars, histVars, spscVars,
                   collVars>>

\* processBlock starts on a new block (the host calls it after
\* prepareToPlay): updateFilters takes its snapshot
A_Begin ==
    /\ aPc = "idle"
    /\ sampleRate > 0
    /\ buffer' = [ch \in {0, 1} |-> "input"]
    /\ aSettings' = getChainSettings(apvts)
    /\ aVer' = paramVersion
    /\ aPc' = "lowcut"
    /\ UNCHANGED <<apvts, sampleRate, numChannels,
                   mPc, mSettings, collected,
                   paramVersion, mVer, writtenBy, jasserts, dispVars,
                   chainVars, fifoVars, histVars, spscVars, collVars>>

\* processBlock: updateFilters: updateLowCutFilters
A_LowCut ==
    /\ aPc = "lowcut"
    /\ LET w == updateLowCutFilters(World, aSettings, sampleRate)
       IN  chains' = w.chains /\ heap' = w.heap
    /\ writtenBy' = [writtenBy EXCEPT !.LowCut = aVer]
    /\ aPc' = "peak"
    /\ UNCHANGED <<apvts, sampleRate, numChannels,
                   aSettings, mPc, mSettings, buffer,
                   collected, paramVersion, aVer, mVer, jasserts, dispVars,
                   lastCut, fifoVars, histVars, spscVars, collVars>>

\* processBlock: updateFilters: updatePeakFilter
A_Peak ==
    /\ aPc = "peak"
    /\ LET w == updatePeakFilter(World, aSettings, sampleRate)
       IN  chains' = w.chains /\ heap' = w.heap
    /\ writtenBy' = [writtenBy EXCEPT !.Peak = aVer]
    /\ aPc' = "highcut"
    /\ UNCHANGED <<apvts, sampleRate, numChannels,
                   aSettings, mPc, mSettings, buffer,
                   collected, paramVersion, aVer, mVer, jasserts, dispVars,
                   lastCut, fifoVars, histVars, spscVars, collVars>>

\* processBlock: updateFilters: updateHighCutFilters
A_HighCut ==
    /\ aPc = "highcut"
    /\ LET w == updateHighCutFilters(World, aSettings, sampleRate)
       IN  chains' = w.chains /\ heap' = w.heap
    /\ writtenBy' = [writtenBy EXCEPT !.HighCut = aVer]
    /\ aPc' = "processL"
    /\ UNCHANGED <<apvts, sampleRate, numChannels,
                   aSettings, mPc, mSettings, buffer,
                   collected, paramVersion, aVer, mVer, jasserts, dispVars,
                   lastCut, fifoVars, histVars, spscVars, collVars>>

\* processBlock: leftChain.process (leftContext), channel 0
A_ProcessL ==
    /\ aPc = "processL"
    /\ buffer' = [buffer EXCEPT ![0] = IF 0 < numChannels THEN "left" ELSE @]
    /\ jasserts' = jasserts \cup
          {a \in ChannelAsserts(numChannels) :
              a = "getSingleChannelBlock: channel < numChannels"}
    /\ aPc' = "processR"
    /\ UNCHANGED <<apvts, sampleRate, numChannels,
                   aSettings, mPc, mSettings, collected,
                   paramVersion, aVer, mVer, writtenBy, dispVars,
                   chainVars, fifoVars, histVars, spscVars, collVars>>

\* processBlock: rightChain.process (rightContext), channel 1
A_ProcessR ==
    /\ aPc = "processR"
    /\ buffer' = [buffer EXCEPT ![1] = IF 1 < numChannels THEN "right" ELSE @]
    /\ aPc' = "collect"
    /\ UNCHANGED <<apvts, sampleRate, numChannels,
                   aSettings, mPc, mSettings, collected,
                   paramVersion, aVer, mVer, writtenBy, jasserts, dispVars,
                   chainVars, fifoVars, histVars, spscVars, collVars>>

\* processBlock: leftChannelFifo.update (buffer), rightChannelFifo.update
\* (buffer); each reads the channel channelToUse of the buffer
A_Collect ==
    /\ aPc = "collect"
    /\ \E c \in [DOMAIN collected -> Contents] :
          /\ \A f \in DOMAIN collected :
                c[f] \in ReadChannel(buffer, numChannels, channelToUse(f))
          /\ collected' = c
    /\ jasserts' = jasserts
          \cup (IF prepared THEN {} ELSE {"prepared.get()"})
          \cup {a \in ChannelAsserts(numChannels) :
                    a = "buffer.getNumChannels() > channelToUse"}
    /\ aPc' = "idle"
    /\ UNCHANGED <<apvts, sampleRate, numChannels,
                   aSettings, mPc, mSettings, buffer,
                   paramVersion, aVer, mVer, writtenBy, dispVars,
                   chainVars, fifoVars, histVars, spscVars, collVars>>

\* setStateInformation: a valid tree replaces the state (the listeners of
\* the parameters it changes are notified) and updateFilters takes its
\* snapshot; an invalid tree changes nothing
M_SetStateInformation ==
    /\ mPc = "idle"
    /\ \/ \E tree \in StateTrees :
             /\ tree = apvts \/ paramVersion < MaxParamChanges
             /\ apvts' = tree
             /\ paramVersion' = (IF tree = apvts THEN paramVersion
                                 ELSE paramVersion + 1)
             /\ IF tree = apvts
                THEN UNCHANGED <<parametersChanged, notified>>
                ELSE parameterValueChanged
             /\ mSettings' = getChainSettings(tree)
             /\ mVer' = paramVersion'
             /\ mPc' = "lowcut"
       \/ UNCHANGED <<apvts, mSettings, mPc, paramVersion, mVer,
                      parametersChanged, notified>>
    /\ UNCHANGED <<sampleRate, numChannels,
                   aPc, aSettings, buffer, collected,
                   aVer, writtenBy, jasserts,
                   editor, monoChain, magnitudes, dPc, dRun,
                   chainVars, fifoVars, histVars, spscVars, collVars>>

\* setStateInformation: updateFilters: updateLowCutFilters
M_LowCut ==
    /\ mPc = "lowcut"
    /\ LET w == updateLowCutFilters(World, mSettings, sampleRate)
       IN  chains' = w.chains /\ heap' = w.heap
    /\ writtenBy' = [writtenBy EXCEPT !.LowCut = mVer]
    /\ mPc' = "peak"
    /\ UNCHANGED <<apvts, sampleRate, numChannels,
                   aPc, aSettings, mSettings, buffer,
                   collected, paramVersion, aVer, mVer, jasserts, dispVars,
                   lastCut, fifoVars, histVars, spscVars, collVars>>

\* setStateInformation: updateFilters: updatePeakFilter
M_Peak ==
    /\ mPc = "peak"
    /\ LET w == updatePeakFilter(World, mSettings, sampleRate)
       IN  chains' = w.chains /\ heap' = w.heap
    /\ writtenBy' = [writtenBy EXCEPT !.Peak = mVer]
    /\ mPc' = "highcut"
    /\ UNCHANGED <<apvts, sampleRate, numChannels,
                   aPc, aSettings, mSettings, buffer,
                   collected, paramVersion, aVer, mVer, jasserts, dispVars,
                   lastCut, fifoVars, histVars, spscVars, collVars>>

\* setStateInformation: updateFilters: updateHighCutFilters, and return
M_HighCut ==
    /\ mPc = "highcut"
    /\ LET w == updateHighCutFilters(World, mSettings, sampleRate)
       IN  chains' = w.chains /\ heap' = w.heap
    /\ writtenBy' = [writtenBy EXCEPT !.HighCut = mVer]
    /\ mPc' = "idle"
    /\ UNCHANGED <<apvts, sampleRate, numChannels,
                   aPc, aSettings, mSettings, buffer,
                   collected, paramVersion, aVer, mVer, jasserts, dispVars,
                   lastCut, fifoVars, histVars, spscVars, collVars>>

\* one whole processBlock call on a block of n samples, no other thread
\* running meanwhile: updateFilters, both chains, both collectors (the
\* collector modelled sample by sample is leftChannelFifo)
ProcessBlock ==
    /\ aPc = "idle"
    /\ mPc = "idle"
    /\ sampleRate > 0
    /\ aSettings' = getChainSettings(apvts)
    /\ aVer' = paramVersion
    /\ LET w == updateFilters(World, apvts, sampleRate)
       IN  chains' = w.chains /\ heap' = w.heap
    /\ writtenBy' = [pos \in ChainPositions |-> paramVersion]
    /\ buffer' = [ch \in {0, 1} |->
                     IF ~(ch < numChannels) THEN "none"
                     ELSE IF ch = 0 THEN "left" ELSE "right"]
    /\ \E c \in [DOMAIN collected -> Contents] :
          /\ \A f \in DOMAIN collected :
                c[f] \in ReadChannel(buffer', numChannels, channelToUse(f))
          /\ collected' = c
    /\ jasserts' = jasserts
          \cup (IF prepared THEN {} ELSE {"prepared.get()"})
          \cup ChannelAsserts(numChannels)
    /\ IF prepared
       THEN /\ \E n \in 1 .. size :
                 /\ cFed + n <= MaxFed
                 /\ LET c == updateLoop(Collector, cFed + 1, cFed + n)
                    IN  /\ fifoIndex' = c.fifoIndex
                        /\ bufferToFill' = c.bufferToFill
                        /\ validEnd' = c.ve
                        /\ buffers' = c.buffers
                        /\ cPushes' = c.pushes
                        /\ cDrops' = c.drops
                 /\ cFed' = cFed + n
            /\ cCalls' = (IF cCalls < 2 THEN cCalls + 1 ELSE cCalls)
       ELSE UNCHANGED <<fifoIndex, bufferToFill, validEnd, buffers,
                           cPushes, cDrops, cFed, cCalls>>
    /\ UNCHANGED <<apvts, sampleRate, numChannels,
                   aPc, mPc, mSettings, paramVersion, mVer,
                   validStart, out, prepared, size, cDrained, lastCut,
                   histVars, spscVars, dispVars>>

\* ------------------------------------------- ResponseCurveComponent
\* the widths w of the analysis area at which paint is run
Widths == {3}

RECURSIVE Pow10(_)
Pow10(k) == IF k = 0 THEN 1 ELSE 10 * Pow10(k - 1)

RECURSIVE Pow2(_)
Pow2(k) == IF k = 0 THEN 1 ELSE 2 * Pow2(k - 1)

RECURSIVE FloorLog2(_)
FloorLog2(x) == IF x < 2 THEN 0 ELSE 1 + FloorLog2(x \div 2)

\* juce::mapToLog10 (double (i) / double (w), 20.0, 20000.0)
\* = 20 * 1000^(i / w), in Hz, for the widths w that divide 3 * i
mapToLog10(i, w) == 20 * Pow10((3 * i) \div w)

\* a magnitude (linear gain) is the fraction n / d; 0 / 0 is NaN
NaN == [n |-> 0, d |-> 0]
One == [n |-> 1, d |-> 1]

\* mag *= ...
Times(a, b) == [n |-> a.n * b.n, d |-> a.d * b.d]

\* Coefficients::getMagnitudeForFrequency (frequency, sampleRate), reduced to
\* three levels per filter: pass-through taps give 1; a peak gives its gain
\* within an octave of its centre and 1 elsewhere (so 1 everywhere at gain
\* 1); a Butterworth section gives 1/2 at its cutoff and on the stop side of
\* it, and 1 on the pass side. A sample rate of 0 (in the call or in the
\* design of the taps) gives NaN.
getMagnitudeForFrequency(taps, frequency, rate) ==
    IF rate = 0 \/ (taps.kind # "unity" /\ taps.rate = 0) THEN NaN
    ELSE CASE taps.kind = "unity" -> One
           [] taps.kind = "peak" ->
                 IF 2 * frequency >= taps.freq /\ frequency <= 2 * taps.freq
                 THEN [n |-> taps.gain, d |-> 1000]
                 ELSE One
           [] taps.kind = "highpass" ->
                 IF frequency <= taps.freq THEN [n |-> 1, d |-> 2] ELSE One
           [] taps.kind = "lowpass" ->
                 IF frequency >= taps.freq THEN [n |-> 1, d |-> 2] ELSE One

\* 20 * log10 (x) in hundredths of a dB for an integer x >= 1: 6.02 dB per
\* doubling, interpolated linearly between two powers of 2
decibelsOf(x) ==
    LET k == FloorLog2(x)
    IN  (602 * (1000 * k + (1000 * (x - Pow2(k))) \div Pow2(k))) \div 1000

\* juce::Decibels::gainToDecibels (gain), in hundredths of a dB:
\* gain > 0 ? jmax (minusInfinityDb, log10 (gain) * 20) : minusInfinityDb
gainToDecibels(gain) ==
    IF gain.d = 0 \/ gain.n <= 0 THEN -10000
    ELSE LET dB == decibelsOf(gain.n) - decibelsOf(gain.d)
         IN  IF dB < -10000 THEN -10000 ELSE dB

\* the body of paint's loop with every stage multiplied in, bypassed or not
magnitudeAt_IgnoreBypass(chain, h, freq, rate) ==
    LET mag(m, o) == Times(m, getMagnitudeForFrequency(h[o], freq, rate))
        peak == mag(One, chain.Peak.coefficients)
        l0 == mag(peak, chain.LowCut.coefficients[0])
        l1 == mag(l0, chain.LowCut.coefficients[1])
        l2 == mag(l1, chain.LowCut.coefficients[2])
        l3 == mag(l2, chain.LowCut.coefficients[3])
        h0 == mag(l3, chain.HighCut.coefficients[0])
        h1 == mag(h0, chain.HighCut.coefficients[1])
        h2 == mag(h1, chain.HighCut.coefficients[2])
    IN  mag(h2, chain.HighCut.coefficients[3])

\* the body of paint's loop: mag at one frequency
magnitudeAt(chain, h, freq, rate) ==
    LET mag(m, bypassed, o) ==
            IF ~bypassed
            THEN Times(m, getMagnitudeForFrequency(h[o], freq, rate))
            ELSE m
        lowCut == chain.LowCut
        highCut == chain.HighCut
        peak == mag(One, chain.Peak.bypassed, chain.Peak.coefficients)
        l0 == mag(peak, lowCut.bypassed[0], lowCut.coefficients[0])
        l1 == mag(l0, lowCut.bypassed[1], lowCut.coefficients[1])
        l2 == mag(l1, lowCut.bypassed[2], lowCut.coefficients[2])
        l3 == mag(l2, lowCut.bypassed[3], lowCut.coefficients[3])
        h0 == mag(l3, highCut.bypassed[0], highCut.coefficients[0])
        h1 == mag(h0, highCut.bypassed[1], highCut.coefficients[1])
        h2 == mag(h1, highCut.bypassed[2], highCut.coefficients[2])
    IN  mag(h2, highCut.bypassed[3], highCut.coefficients[3])

\* ResponseCurveComponent::paint: the magnitudes vector, w values in
\* hundredths of a dB
paint(chain, h, rate, w) ==
    [i \in 1 .. w |->
        gainToDecibels(magnitudeAt(chain, h, mapToLog10(i - 1, w), rate))]

\* juce::Atomic<bool>::compareAndSetBool that never stores the new value
compareAndSetBool_NoStore(value, newValue, valueToCompare) ==
    [value |-> value, ret |-> value = valueToCompare]

\* juce::Atomic<bool>::compareAndSetBool (newValue, valueToCompare) on an
\* atomic holding value
compareAndSetBool(value, newValue, valueToCompare) ==
    [value |-> IF value = valueToCompare THEN newValue ELSE value,
     ret |-> value = valueToCompare]

\* leftChain, rightChain and the component's monoChain with their
\* coefficient objects
DisplayWorld ==
    [chains |-> [c \in ChainNames \cup {"mono"} |->
                    IF c = "mono" THEN monoChain ELSE chains[c]],
     heap |-> heap]

\* updateChain run on the processor's leftChain
updateChain_OnLeftChain(w, a, rate) ==
    LET chainSettings == getChainSettings(a)
        peakCoefficients == makePeakFilter(chainSettings, rate)
        w1 == [w EXCEPT !.heap = updateCoefficients(
                  w.heap, w.chains["left"].Peak.coefficients,
                  peakCoefficients)]
        lowCutCoefficients == makeLowCutFilter(chainSettings, rate)
        highCutCoefficients == makeHighCutFilter(chainSettings, rate)
    IN  updateChainCut(
            updateChainCut(w1, "left", "LowCut", lowCutCoefficients,
                           chainSettings.lowCutSlope),
            "left", "HighCut", highCutCoefficients,
            chainSettings.highCutSlope)

\* ResponseCurveComponent::updateChain, with a = audioProcessor.apvts and
\* rate = audioProcessor.getSampleRate ()
updateChain(w, a, rate) ==
    LET chainSettings == getChainSettings(a)
        peakCoefficients == makePeakFilter(chainSettings, rate)
        w1 == [w EXCEPT !.heap = updateCoefficients(
                  w.heap, w.chains["mono"].Peak.coefficients,
                  peakCoefficients)]
        lowCutCoefficients == makeLowCutFilter(chainSettings, rate)
        highCutCoefficients == makeHighCutFilter(chainSettings, rate)
    IN  updateChainCut(
            updateChainCut(w1, "mono", "LowCut", lowCutCoefficients,
                           chainSettings.lowCutSlope),
            "mono", "HighCut", highCutCoefficients,
            chainSettings.highCutSlope)

\* the drain loop of timerCallback: pull into tempIncomingBuffer while
\* getNumCompleteBuffersAvailable () > 0
RECURSIVE drainLoop(_, _)
drainLoop(f, tempIncomingBuffer) ==
    IF getNumReady(f.vs, f.ve) > 0
    THEN LET r == FifoPull(f, tempIncomingBuffer)
         IN  drainLoop([vs |-> r.vs, ve |-> r.ve, buffers |-> r.buffers],
                       r.out)
    ELSE [vs |-> f.vs, out |-> tempIncomingBuffer]

\* ResponseCurveComponent (p): addListener on every parameter, updateChain,
\* startTimerHz (60)
D_Construct ==
    /\ ~editor
    /\ editor' = TRUE
    /\ LET w == updateChain(DisplayWorld, apvts, sampleRate)
       IN  /\ monoChain' = w.chains["mono"]
           /\ chains' = [c \in ChainNames |-> w.chains[c]]
           /\ heap' = w.heap
    /\ UNCHANGED <<parametersChanged, magnitudes, dPc, notified, dRun,
                   lastCut, procVars, fifoVars, histVars, spscVars, collVars>>

\* timerCallback: the drain loop, then compareAndSetBool (false, true)
D_TimerCallback ==
    /\ editor
    /\ dPc = "idle"
    /\ LET f == drainLoop(FifoState, <<>>)
       IN  /\ validStart' = f.vs
           /\ out' = f.out
    /\ LET cas == compareAndSetBool(parametersChanged, FALSE, TRUE)
       IN  /\ parametersChanged' = cas.value
           /\ dPc' = (IF cas.ret THEN "update" ELSE "idle")
           /\ dRun' = [ran |-> TRUE, flag |-> cas.ret, burst |-> notified,
                       updates |-> 0]
    /\ notified' = 0
    /\ UNCHANGED <<editor, monoChain, magnitudes, validEnd, buffers,
                   chainVars, procVars, histVars, spscVars, collVars>>

\* timerCallback: updateChain, repaint, and return
D_UpdateChain ==
    /\ dPc = "update"
    /\ LET w == updateChain(DisplayWorld, apvts, sampleRate)
       IN  /\ monoChain' = w.chains["mono"]
           /\ chains' = [c \in ChainNames |-> w.chains[c]]
           /\ heap' = w.heap
    /\ dRun' = [dRun EXCEPT !.updates = @ + 1]
    /\ dPc' = "idle"
    /\ UNCHANGED <<editor, parametersChanged, magnitudes, notified,
                   lastCut, procVars, fifoVars, histVars, spscVars, collVars>>

\* paint (g), on the message thread between two timer callbacks
D_Paint ==
    /\ editor
    /\ dPc = "idle"
    /\ \E w \in Widths : magnitudes' = paint(monoChain, heap, sampleRate, w)
    /\ UNCHANGED <<editor, parametersChanged, monoChain, dPc, notified, dRun,
                   chainVars, procVars, fifoVars, histVars, spscVars,
                   collVars>>

\* timerCallback one step at a time, with the audio thread pushing blocks
\* meanwhile: the timer fires and tempIncomingBuffer is constructed
D_DrainEnter ==
    /\ editor
    /\ dPc = "idle"
    /\ cPc = "idle"
    /\ out' = <<>>
    /\ dPc' = "drain"
    /\ UNCHANGED <<validStart, validEnd, buffers, histVars, spscVars,
                   collVars, chainVars, procVars, editor, parametersChanged,
                   monoChain, magnitudes, notified, dRun>>

\* while (leftChanelFifo->getNumCompleteBuffersAvailable () > 0)
D_DrainTest ==
    /\ dPc = "drain"
    /\ dPc' = (IF getNumAvailableForReading > 0 THEN "pull" ELSE "cas")
    /\ UNCHANGED <<fifoVars, histVars, spscVars, collVars, chainVars,
                   procVars, editor, parametersChanged, monoChain,
                   magnitudes, notified, dRun>>

\* leftChanelFifo->getAudioBuffer (tempIncomingBuffer): the steps of
\* Fifo::pull, then back to the loop condition
D_DrainPull ==
    /\ dPc = "pull"
    /\ C_Begin \/ C_Reserve \/ C_CopyBegin \/ C_CopyEnd \/ C_Finish
    /\ dPc' = (IF cPc' = "idle" THEN "drain" ELSE "pull")
    /\ UNCHANGED <<collVars, chainVars, procVars, editor, parametersChanged,
                   monoChain, magnitudes, notified, dRun>>

\* after the loop: compareAndSetBool (false, true)
D_DrainCas ==
    /\ dPc = "cas"
    /\ LET cas == compareAndSetBool(parametersChanged, FALSE, TRUE)
       IN  /\ parametersChanged' = cas.value
           /\ dPc' = (IF cas.ret THEN "update" ELSE "idle")
           /\ dRun' = [ran |-> TRUE, flag |-> cas.ret, burst |-> notified,
                       updates |-> 0]
    /\ notified' = 0
    /\ UNCHANGED <<editor, monoChain, magnitudes, fifoVars,
                   chainVars, procVars, histVars, spscVars, collVars>>

InitDisplay ==
    /\ editor = FALSE
    /\ parametersChanged = FALSE
    /\ monoChain = NewMonoChain("mono")
    /\ magnitudes = <<>>
    /\ dPc = "idle"
    /\ notified = 0
    /\ dRun = [ran |-> FALSE, flag |-> FALSE, burst |-> 0, updates |-> 0]

Init ==
    /\ InitFifo /\ InitHist /\ InitSpsc /\ InitCollector /\ InitChains
    /\ InitProcessor /\ InitDisplay

Next ==
    \/ Push /\ UNCHANGED <<spscVars, collVars, chainVars, procVars, dispVars>>
    \/ Pull /\ UNCHANGED <<spscVars, collVars, chainVars, procVars, dispVars>>

NextSpsc ==
    \/ (P_Begin \/ P_Reserve \/ P_CopyBegin \/ P_CopyEnd \/ P_Finish)
         /\ UNCHANGED <<collVars, chainVars, procVars, dispVars>>
    \/ (C_Begin \/ C_Reserve \/ C_CopyBegin \/ C_CopyEnd \/ C_Finish)
         /\ UNCHANGED <<collVars, chainVars, procVars, dispVars>>

NextCollector ==
    (Prepare \/ Update \/ GetAudioBuffer)
        /\ UNCHANGED <<chainVars, procVars, dispVars>>

NextCascade == UpdateCutFilterCall /\ UNCHANGED <<procVars, dispVars>>

NextProcessor ==
    \/ PrepareToPlay
    \/ SetParameter
    \/ A_Begin \/ A_LowCut \/ A_Peak \/ A_HighCut
    \/ A_ProcessL \/ A_ProcessR \/ A_Collect
    \/ M_SetStateInformation \/ M_LowCut \/ M_Peak \/ M_HighCut

NextLifecycle == PrepareToPlay \/ ProcessBlock

NextBuses == SetBusesLayout \/ PrepareToPlay \/ ProcessBlock

NextDisplay ==
    \/ (PrepareToPlay /\ size' = MaxBlockSize)
    \/ SetParameter
    \/ D_Construct \/ D_TimerCallback \/ D_UpdateChain \/ D_Paint

\* the steps of the message thread inside the drain loop of timerCallback
DrainStep == D_DrainTest \/ D_DrainPull

NextDrain ==
    \/ (P_Begin \/ P_Reserve \/ P_CopyBegin \/ P_CopyEnd \/ P_Finish)
         /\ pushOKs < MaxDrainPushes
         /\ UNCHANGED <<collVars, chainVars, procVars, dispVars>>
    \/ D_Construct
    \/ D_DrainEnter
    \/ D_DrainTest
    \/ D_DrainPull
    \/ D_DrainCas

\* timerCallback draining the FIFO while the audio thread pushes at most
\* MaxDrainPushes blocks
SpecDrain == Init /\ [][NextDrain]_vars

\* the same, with the message thread going on whenever it is inside the
\* loop (nothing in the loop blocks)
SpecDrainFair == SpecDrain /\ WF_vars(DrainStep)

\* the editor's ResponseCurveComponent on the message thread, with the
\* parameters changing and the processor's chains updated under it
\* (the host's block size plays no part in the display: prepareToPlay is
\* called with the largest one)
SpecDisplay == Init /\ [][NextDisplay]_vars

\* the host's calls on the audio side, one whole call at a time:
\* prepareToPlay, then any number of processBlock and prepareToPlay calls
SpecLifecycle == Init /\ [][NextLifecycle]_vars

\* the same with the host choosing the layout of the buses between calls
SpecBuses == Init /\ [][NextBuses]_vars

\* the audio thread in processBlock and the message thread in
\* setStateInformation / prepareToPlay, no lock between them
SpecProcessor == Init /\ [][NextProcessor]_vars

\* any sequence of updateCutFilter calls on the cascades of one chain
SpecCascade == Init /\ [][NextCascade]_vars

\* one SingleChannelSampleFifo fed by processBlock and drained by the display
SpecCollector == Init /\ [][NextCollector]_vars

\* one producer thread and one consumer thread, interleaved step by step
SpecSpsc == Init /\ [][NextSpsc]_vars

Spec == Init /\ [][Next]_vars

\* ------------------------------------------------------------------ C1
\* C1: starting from an empty Fifo, Capacity consecutive push calls with no
\* pull in between all return true, and every further push returns false
\* and leaves the blocks, both indices and getNumAvailableForReading as
\* they were.
C1_FullAfterCapacityPushes ==
    (pullCalls = 0) =>
        /\ pushOKs = jmin(pushCalls, Capacity)
        /\ (lastCall.op = "push" /\ ~lastCall.ret) => lastCall.kept

\* ------------------------------------------------------------------ C2
\* C2: after Capacity pushes of b1..bC followed by Capacity pulls, every
\* pull returned true, the i-th pull delivered bi and
\* getNumAvailableForReading is 0 again.
C2_CapacityPushesThenPulls ==
    (pushCalls = Capacity /\ pullCalls = Capacity /\ ~mixed) =>
        /\ pullOKs = Capacity
        /\ pulledSeq = [i \in 1 .. Capacity |-> Blk(i)]
        /\ getNumAvailableForReading = 0

\* ------------------------------------------------------------------ C3
\* C3: with one producer in push and one consumer in pull, interleaved at
\* the steps reserve / copy / finish, pull only copies from a slot that a
\* completed push has published, and push never writes a slot whose block
\* is published and not yet completely pulled; every block delivered is the
\* block pushed, in order.
pCopies == pPc \in {"copy", "copying"}
cCopies == cPc \in {"copy", "copying"}

C3_SpscSlotsDisjoint ==
    /\ cCopies => cRead.startIndex1 \in published
    /\ pCopies => pWrite.startIndex1 \notin published
    /\ (pCopies /\ cCopies) => pWrite.startIndex1 # cRead.startIndex1
    /\ Len(pulledSeq) <= Len(pushedSeq)
    /\ \A i \in 1 .. Len(pulledSeq) : pulledSeq[i] = pushedSeq[i]

\* a pull is copying a slot while a push is copying into another one, after
\* the indices have wrapped
C3_Witness ==
    /\ pPc = "copying"
    /\ cPc = "copying"
    /\ pushOKs > Capacity
    /\ pWrite.startIndex1 < cRead.startIndex1

\* ------------------------------------------------------------------ C4
\* C4 (as claimed): after prepare(blockSize), feeding exactly k*blockSize
\* samples through update, in one call or several, triggers exactly k
\* pushes of a completed block.
C4_KBlocksKPushes ==
    (prepared /\ cFed > 0 /\ cFed % size = 0) => cPushes = cFed \div size

\* C4 (amended): a completed block is pushed when the next sample arrives:
\* after n >= 1 samples the collector has made (n - 1) div blockSize pushes,
\* so exactly k*blockSize samples trigger exactly k - 1 pushes.
C4_PushOnNextSample ==
    (prepared /\ cFed > 0) =>
        /\ cPushes = (cFed - 1) \div size
        /\ (cFed % size = 0) => cPushes = (cFed \div size) - 1

\* 2*blockSize samples fed over several update calls: one push so far
C4_Witness ==
    /\ prepared
    /\ size >= 2
    /\ cFed = 2 * size
    /\ cCalls >= 2
    /\ cPushes = 1

\* ------------------------------------------------------------------ C5
\* C5 (as claimed): after prepare and after every completed update the
\* cursor fifoIndex lies in [0, blockSize).
C5_CursorBelowBlockSize ==
    prepared => fifoIndex \in 0 .. (size - 1)

\* C5 (amended): after prepare and after every completed update the cursor
\* lies in [0, blockSize], is at least 1 once a sample has been fed, and
\* equals blockSize after the sample that fills the block; it went back to
\* 0 once per push and at no other moment: samples fed = blockSize * pushes
\* + cursor.
C5_CursorUpToBlockSize ==
    prepared =>
        /\ fifoIndex \in 0 .. size
        /\ (cFed > 0) => fifoIndex >= 1
        /\ (cFed > 0 /\ cFed % size = 0) => fifoIndex = size
        /\ cFed = size * cPushes + fifoIndex

\* the cursor rests at blockSize between two update calls, after a push
C5_Witness ==
    /\ prepared
    /\ fifoIndex = size
    /\ cPushes >= 1
    /\ cCalls >= 1

\* ------------------------------------------------------------------ C6
\* C6: after any sequence of updateCutFilter calls on a cascade with slopes
\* s1..sn, the cascade has exactly sn + 1 unbypassed stages, stages 0..sn,
\* and stages sn+1..3 are bypassed, whatever the earlier slopes were.
Cascade(pos) == chains["left"][pos]

C6_BypassBySlope ==
    \A pos \in CutPositions :
        lastCut[pos].called =>
            /\ \A i \in Stages :
                  Cascade(pos).bypassed[i] <=> (i > lastCut[pos].slope)
            /\ Cardinality({i \in Stages : ~Cascade(pos).bypassed[i]})
                  = lastCut[pos].slope + 1

\* a call with slope 1 on a cascade whose stage 3 carries coefficients of an
\* earlier call with slope 3
C6_Witness ==
    /\ lastCut["LowCut"].called
    /\ lastCut["LowCut"].slope = 1
    /\ lastCut["LowCut"].before[3].order = 8
    /\ Cascade("LowCut").bypassed[3]
    /\ ~Cascade("LowCut").bypassed[1]

\* ------------------------------------------------------------------ C7
\* C7 (as claimed): the cut-filter designer returns exactly 4 per-stage
\* coefficient sets for every cutoff, sample rate and slope.
C7_FourCoefficientSets ==
    \A pos \in CutPositions :
        lastCut[pos].called => Len(lastCut[pos].coefficients) = 4

\* C7 (amended): makeLowCutFilter / makeHighCutFilter design a filter of
\* order 2 * (slope + 1) and return exactly slope + 1 coefficient sets, so
\* the selected slope decides how many sets are computed (4 only at 48
\* dB/Oct).
C7_SlopePlusOneCoefficientSets ==
    \A pos \in CutPositions :
        lastCut[pos].called =>
            /\ Len(lastCut[pos].coefficients) = lastCut[pos].slope + 1
            /\ \A i \in 1 .. Len(lastCut[pos].coefficients) :
                  /\ lastCut[pos].coefficients[i].order
                        = 2 * (lastCut[pos].slope + 1)
                  /\ lastCut[pos].coefficients[i].index = i - 1

\* a low-cut design at 24 dB/Oct with two coefficient sets
C7_Witness ==
    /\ lastCut["LowCut"].called
    /\ lastCut["LowCut"].slope = 1
    /\ Len(lastCut["LowCut"].coefficients) = 2

\* ------------------------------------------------------------------ C8
\* the position in the log of the first write matching (what, i, b)
FirstAt(log, what, i, b) ==
    LET at == {n \in 1 .. Len(log) : log[n] = <<what, i, b>>}
    IN  IF at = {} THEN 0 ELSE CHOOSE n \in at : \A m \in at : n <= m

\* C8 (as claimed): updateCutFilter writes the new coefficients into all
\* four stages, the bypassed ones included, before it sets the bypass
\* flags; after the call every stage i in 0..3 holds the i-th coefficient
\* set of the latest design.
C8_AllFourStagesWritten ==
    \A pos \in CutPositions :
        lastCut[pos].called =>
            \A i \in Stages :
                /\ i + 1 <= Len(lastCut[pos].coefficients)
                /\ heap[Cascade(pos).coefficients[i]]
                      = lastCut[pos].coefficients[i + 1]
                /\ FirstAt(lastCut[pos].log, "coefficients", i, FALSE) > 0
                /\ FirstAt(lastCut[pos].log, "coefficients", i, FALSE)
                      < FirstAt(lastCut[pos].log, "bypass", 0, TRUE)

\* C8 (amended): updateCutFilter first sets all four bypass flags, then
\* writes the newly designed coefficients into stages 0..slope only, each
\* just before it clears that stage's bypass flag; after the call every
\* stage i in 0..slope holds the i-th coefficient set of the latest design
\* and the bypassed stages slope+1..3 hold the coefficients they held before
\* the call.
C8_ActiveStagesWritten ==
    \A pos \in CutPositions :
        lastCut[pos].called =>
            \A i \in Stages :
                LET log == lastCut[pos].log
                    wrote == FirstAt(log, "coefficients", i, FALSE)
                IN  IF i <= lastCut[pos].slope
                    THEN /\ heap[Cascade(pos).coefficients[i]]
                               = lastCut[pos].coefficients[i + 1]
                         /\ FirstAt(log, "bypass", i, TRUE) < wrote
                         /\ FirstAt(log, "bypass", 3, TRUE) < wrote
                         /\ FirstAt(log, "bypass", i, FALSE) = wrote + 1
                    ELSE /\ heap[Cascade(pos).coefficients[i]]
                               = lastCut[pos].before[i]
                         /\ wrote = 0

\* a call with slope 0 and a new cutoff leaves stage 2 with the
\* coefficients of an earlier design
C8_Witness ==
    /\ lastCut["LowCut"].called
    /\ lastCut["LowCut"].slope = 0
    /\ lastCut["LowCut"].coefficients[1].freq = 1000
    /\ heap[Cascade("LowCut").coefficients[2]].freq = 20
    /\ heap[Cascade("LowCut").coefficients[0]].freq = 1000

\* ------------------------------------------------------------------ C9
\* C9: replacing a stage's coefficients installs a new object by swapping
\* the stage's reference; the taps of the object the stage referenced before
\* the update are never written.
StageObjects ==
    {chains[c][p].coefficients[i] :
        c \in ChainNames, p \in CutPositions, i \in Stages}
      \cup {chains[c].Peak.coefficients : c \in ChainNames}

C9_OldTapsNeverWritten ==
    [][\A o \in StageObjects : heap'[o] = heap[o]]_vars

\* ------------------------------------------------------------------ C10
\* C10: no two threads ever mutate the same signal chain: updateFilters run
\* from setStateInformation never writes leftChain / rightChain while
\* processBlock is updating or filtering with them.
AudioInChains == aPc \in {"lowcut", "peak", "highcut", "processL", "processR"}
MessageInChains == mPc \in {"lowcut", "peak", "highcut"}

C10_OneThreadPerChain == ~(AudioInChains /\ MessageInChains)

\* ------------------------------------------------------------------ C17
\* C17: Fifo::pull on an empty FIFO (getNumAvailableForReading = 0) returns
\* false and leaves the caller's block, the stored blocks, both indices and
\* getNumAvailableForReading unchanged.
C17_PullOnEmptyKeepsState ==
    [][(Pull /\ getNumAvailableForReading = 0) =>
          /\ lastCall'.op = "pull"
          /\ ~lastCall'.ret
          /\ out' = out
          /\ buffers' = buffers
          /\ validStart' = validStart
          /\ validEnd' = validEnd
          /\ getNumReady(validStart', validEnd') = 0
          /\ pullOKs' = pullOKs]_vars

\* a pull was refused on a FIFO that blocks had gone through: the caller
\* still holds the block of the last successful pull
C17_Witness ==
    /\ lastCall.op = "pull"
    /\ ~lastCall.ret
    /\ lastCall.kept
    /\ pullOKs >= 2
    /\ pullOKs = pushOKs
    /\ out = Blk(pullOKs)
    /\ getNumAvailableForReading = 0

\* ------------------------------------------------------------------ C15
\* C15: when the block FIFO is full at the moment the collector completes a
\* block, update still runs to its end: the block is discarded (the FIFO
\* stays full, its readable blocks and both indices as they were), the
\* cursor restarts at 0 and the following samples are accumulated normally,
\* and the audio buffer and leftChain / rightChain are not touched.
C15_DropAndContinue ==
    [][(Update /\ cDrops' > cDrops) =>
          /\ fifoIndex' \in 1 .. size
          /\ cFed' = size * cPushes' + fifoIndex'
          /\ \A j \in 1 .. fifoIndex' :
                bufferToFill'[j] = Sample(cFed' - fifoIndex' + j)
          /\ validStart' = validStart
          /\ getNumReady(validStart', validEnd') = Capacity - 1
          /\ \A k \in 0 .. (getNumAvailableForReading - 1) :
                buffers'[(validStart + k) % Capacity]
                    = buffers[(validStart + k) % Capacity]
          /\ buffer' = buffer
          /\ chains' = chains
          /\ heap' = heap]_vars

\* the collector dropped a block on a full FIFO and went on accumulating
C15_Witness ==
    /\ prepared
    /\ cDrops >= 1
    /\ fifoIndex >= 1
    /\ fifoIndex < size
    /\ getNumAvailableForReading = Capacity - 1

\* ------------------------------------------------------------------ C16
\* C16: feeding n < blockSize samples to a freshly prepared collector leaves
\* the cursor at n, with the n samples at the start of the accumulation
\* buffer, and triggers no push; in particular blockSize - 1 samples leave
\* the cursor at blockSize - 1.
C16_PartialBlockNoPush ==
    (prepared /\ cFed < size) =>
        /\ fifoIndex = cFed
        /\ cPushes = 0
        /\ \A j \in 1 .. cFed : bufferToFill[j] = Sample(j)

\* blockSize - 1 samples fed after a prepare that followed earlier use of
\* the collector
C16_Witness ==
    /\ prepared
    /\ size >= 2
    /\ cFed = size - 1
    /\ cCalls >= 1
    /\ fifoIndex = size - 1
    /\ validEnd > 0

\* ------------------------------------------------------------------ C20
\* C20: as long as no push failed since prepare, the blocks pushed since
\* prepare, in push order, followed by the first fifoIndex samples of the
\* accumulation buffer are the samples fed since prepare, in order, each
\* exactly once, however the stream was split across update calls.
C20_NoSampleLostOrReordered ==
    (prepared /\ cDrops = 0) =>
        /\ cFed = size * cPushes + fifoIndex
        /\ \A k \in 1 .. cPushes :
              LET slot == (validEnd + Capacity - cPushes + k - 1) % Capacity
              IN  /\ Len(buffers[slot]) = size
                  /\ \A j \in 1 .. size :
                        buffers[slot][j] = Sample((k - 1) * size + j)
        /\ \A j \in 1 .. fifoIndex :
              bufferToFill[j] = Sample(size * cPushes + j)

\* several blocks pushed over several update calls, across the wrap of the
\* FIFO indices, with a partial block in the accumulation buffer
C20_Witness ==
    /\ prepared
    /\ cDrops = 0
    /\ size >= 2
    /\ cPushes >= 2
    /\ cCalls >= 2
    /\ fifoIndex \in 1 .. (size - 1)
    /\ validEnd < cPushes

\* ------------------------------------------------------------------ C13
\* C13: each processBlock call runs one updateFilters (one snapshot, both
\* chains updated), then filters channel 0 with leftChain and channel 1
\* with rightChain, then feeds the collectors the filtered buffer; no block
\* is filtered with coefficients older than the block's own snapshot, and
\* the collectors only see filtered samples.
C13_BlockFilteredWithItsSnapshot ==
    [][/\ (A_ProcessL \/ A_ProcessR) =>
             \A pos \in ChainPositions : writtenBy[pos] >= aVer
       /\ A_ProcessL => buffer = [ch \in {0, 1} |-> "input"]
       /\ A_ProcessR => buffer[0] = "left" /\ buffer[1] = "input"
       /\ A_Collect =>
             /\ buffer[0] = "left"
             /\ buffer[1] = "right"
             /\ \A f \in DOMAIN collected : collected'[f] # "input"]_vars

\* ------------------------------------------------------------------ C14
\* C14: for every cut frequency in 20..20000 Hz and every sample rate the
\* host announces, the cutoff handed to the Butterworth design is strictly
\* below sampleRate / 2.
C14_CutoffBelowNyquist ==
    \A o \in DOMAIN heap :
        (heap[o].kind \in {"highpass", "lowpass"} /\ heap[o].rate > 0) =>
            2 * heap[o].freq < heap[o].rate

\* ------------------------------------------------------------------ C19
\* C19: prepare (blockSize) leaves the collector with fifoIndex 0, getSize ()
\* = blockSize = the length of the accumulation buffer and of every FIFO
\* block, and isPrepared () true; when the host calls prepareToPlay before
\* the first processBlock, update never runs while prepared is false.
C19_PreparedBeforeUpdate ==
    /\ jasserts = {}
    /\ (sampleRate > 0) =>
          /\ prepared
          /\ size \in BlockSizes
          /\ Len(bufferToFill) = size
          /\ \A i \in Slots : Len(buffers[i]) = size
    /\ (sampleRate > 0 /\ cCalls = 0) => fifoIndex = 0
    /\ (cCalls > 0) => prepared

\* prepareToPlay ran again on a collector that had pushed blocks and held a
\* partial block, and processBlock has fed it since
C19_Witness ==
    /\ prepared
    /\ cCalls >= 1
    /\ cPushes = 0
    /\ fifoIndex >= 1
    /\ validEnd >= 2
    /\ jasserts = {}

\* ------------------------------------------------------------------ C11
\* the state the display works on, with leftChain and rightChain replaced by
\* freshly constructed chains
MirrorOnly ==
    [chains |-> [c \in ChainNames \cup {"mono"} |->
                    IF c = "mono" THEN monoChain ELSE NewMonoChain(c)],
     heap |-> [o \in DOMAIN heap |->
                 IF o \in MonoObjIds THEN heap[o] ELSE Unity]]

\* C11: the constructor, timerCallback, updateChain and paint of
\* ResponseCurveComponent leave the coefficients and bypass flags of
\* leftChain and rightChain unchanged and never read them: what they write
\* (monoChain, its coefficients, the magnitudes) is what they would write
\* with any other content of leftChain / rightChain.
C11_DisplayTouchesOnlyMirror ==
    [][/\ (D_Construct \/ D_TimerCallback \/ D_UpdateChain \/ D_Paint) =>
             /\ chains' = chains
             /\ \A o \in ObjIds : heap'[o] = heap[o]
       /\ (D_Construct \/ D_UpdateChain) =>
             LET w == updateChain(MirrorOnly, apvts, sampleRate)
             IN  /\ monoChain' = w.chains["mono"]
                 /\ \A o \in MonoObjIds : heap'[o] = w.heap[o]
       /\ D_TimerCallback =>
             /\ monoChain' = monoChain
             /\ \A o \in MonoObjIds : heap'[o] = heap[o]
       /\ D_Paint =>
             /\ monoChain' = monoChain
             /\ \A o \in MonoObjIds : heap'[o] = heap[o]
             /\ magnitudes' = paint(monoChain, MirrorOnly.heap, sampleRate,
                                    Len(magnitudes'))]_vars

\* the mirror was updated by a timer callback and painted while leftChain
\* still holds the coefficients of the earlier parameter values
C11_Witness ==
    /\ editor
    /\ dPc = "idle"
    /\ dRun.updates = 1
    /\ magnitudes # <<>>
    /\ sampleRate > 0
    /\ heap[monoChain.Peak.coefficients].gain = 1995
    /\ heap[chains["left"].Peak.coefficients].gain = 1000
    /\ monoChain.LowCut.bypassed # chains["left"].LowCut.bypassed

\* ------------------------------------------------------------------ C12
\* C12: parameterValueChanged only sets the flag parametersChanged; a
\* timerCallback preceded by a burst of N >= 1 notifications finds the flag
\* set, clears it and runs updateChain exactly once; a timerCallback that
\* finds the flag clear designs no coefficients.
C12_OneUpdatePerBurst ==
    /\ [](dRun.ran =>
            /\ dRun.flag <=> (dRun.burst >= 1)
            /\ (dPc = "idle") =>
                  dRun.updates = (IF dRun.flag THEN 1 ELSE 0)
            /\ (dPc = "update") => (dRun.flag /\ dRun.updates = 0)
            /\ (notified = 0) => ~parametersChanged)
    /\ [][/\ SetParameter =>
                /\ monoChain' = monoChain
                /\ heap' = heap
                /\ chains' = chains
                /\ magnitudes' = magnitudes
                /\ editor => parametersChanged'
          /\ D_TimerCallback =>
                /\ ~parametersChanged'
                /\ (~parametersChanged) =>
                      (dPc' = "idle" /\ heap' = heap
                                     /\ monoChain' = monoChain)]_vars

\* a timerCallback that followed a burst of several notifications has
\* returned after one updateChain
C12_Witness ==
    /\ dRun.ran
    /\ dRun.burst >= 2
    /\ dRun.flag
    /\ dRun.updates = 1
    /\ dPc = "idle"
    /\ ~parametersChanged

\* ------------------------------------------------------------------ C18
\* the magnitude responses of the stages of a chain that are not bypassed,
\* in chain order: low-cut stages 0..3, peak, high-cut stages 0..3
ActiveResponses(chain, h, freq, rate) ==
    LET cut(pos) ==
            SelectSeq([i \in 1 .. 4 |->
                         [bypassed |-> chain[pos].bypassed[i - 1],
                          mag |-> getMagnitudeForFrequency(
                                      h[chain[pos].coefficients[i - 1]],
                                      freq, rate)]],
                      LAMBDA s : ~s.bypassed)
        peak == IF chain.Peak.bypassed THEN <<>>
                ELSE <<[bypassed |-> FALSE,
                        mag |-> getMagnitudeForFrequency(
                                    h[chain.Peak.coefficients], freq, rate)]>>
    IN  cut("LowCut") \o peak \o cut("HighCut")

RECURSIVE ProductOf(_)
ProductOf(responses) ==
    IF responses = <<>> THEN One
    ELSE Times(Head(responses).mag, ProductOf(Tail(responses)))

\* a chain with both cut cascades fully bypassed
CutsBypassed(chain) ==
    [chain EXCEPT !.LowCut.bypassed = [i \in Stages |-> TRUE],
                  !.HighCut.bypassed = [i \in Stages |-> TRUE]]

\* C18: each value paint computes is the decibel conversion of the product,
\* starting from unit gain, of the magnitude responses of exactly the
\* stages of the mirror chain that are not bypassed; a bypassed stage
\* contributes nothing whatever coefficients it holds: with both cut
\* cascades fully bypassed and a 0 dB peak every value is 0 dB.
C18_ProductOfActiveStages ==
    [][D_Paint =>
          /\ \A i \in 1 .. Len(magnitudes') :
                magnitudes'[i] =
                    gainToDecibels(ProductOf(ActiveResponses(
                        monoChain, heap,
                        mapToLog10(i - 1, Len(magnitudes')), sampleRate)))
          /\ (/\ sampleRate > 0
              /\ heap[monoChain.Peak.coefficients].kind = "peak"
              /\ heap[monoChain.Peak.coefficients].rate > 0
              /\ heap[monoChain.Peak.coefficients].gain = decibelsToGain(0))
                => \A w \in Widths :
                      paint(CutsBypassed(monoChain), heap, sampleRate, w)
                          = [i \in 1 .. w |-> 0]]_vars

\* paint ran on a mirror chain whose low-cut stage 0 attenuates 20 Hz by a
\* half and whose bypassed stages 1 and 2 hold coefficients that would do
\* the same
C18_Witness ==
    /\ Len(magnitudes) = 3
    /\ magnitudes[1] = -602
    /\ magnitudes[2] = 0
    /\ ~monoChain.LowCut.bypassed[0]
    /\ monoChain.LowCut.bypassed[1]
    /\ heap[monoChain.LowCut.coefficients[1]].kind = "highpass"
    /\ heap[monoChain.LowCut.coefficients[2]].kind = "highpass"
    /\ heap[monoChain.LowCut.coefficients[1]].freq = 20

\* ------------------------------------------------------------------ C21
\* C21: after any interleaving of push and pull calls,
\* getNumAvailableForReading is the number of pushes that returned true
\* minus the number of pulls that returned true and lies in 0..Capacity; a
\* successful push advances the write index (validEnd) by one modulo
\* Capacity and leaves the read index, a successful pull advances the read
\* index (validStart) by one modulo Capacity and leaves the write index,
\* and a call that returns false moves neither.
C21_CountAndIndices ==
    /\ [](/\ getNumAvailableForReading = pushOKs - pullOKs
          /\ getNumAvailableForReading \in 0 .. Capacity
          /\ validStart \in Slots
          /\ validEnd \in Slots)
    /\ [][/\ (Push /\ pushOKs' = pushOKs + 1) =>
                /\ validEnd' = (validEnd + 1) % Capacity
                /\ validStart' = validStart
          /\ (Pull /\ pullOKs' = pullOKs + 1) =>
                /\ validStart' = (validStart + 1) % Capacity
                /\ validEnd' = validEnd
          /\ (pushOKs' = pushOKs /\ pullOKs' = pullOKs) =>
                /\ validStart' = validStart
                /\ validEnd' = validEnd]_vars

\* pushes and pulls were interleaved, some of each failed, and both indices
\* have wrapped around
C21_Witness ==
    /\ mixed
    /\ pushOKs > Capacity
    /\ pushOKs < pushCalls
    /\ 0 < pullOKs
    /\ pullOKs < pullCalls
    /\ validEnd < validStart
    /\ getNumAvailableForReading > 0

\* ------------------------------------------------------------------ C22
\* the mirror chain holds what updateChain designs from the current
\* parameter values (at the sample rate its coefficients were designed at)
MirrorIsCurrent ==
    LET w == updateChain(DisplayWorld, apvts,
                         heap[monoChain.Peak.coefficients].rate)
    IN  /\ monoChain = w.chains["mono"]
        /\ \A o \in MonoObjIds : heap[o] = w.heap[o]

C23_ActiveStagesHoldLatestDesign ==
    \A pos \in CutPositions :
        lastCut[pos].called =>
            LET log == lastCut[pos].log
                designed == lastCut[pos].coefficients
            IN  /\ \A i \in Stages :
                      ~Cascade(pos).bypassed[i] =>
                          /\ i + 1 <= Len(designed)
                          /\ heap[Cascade(pos).coefficients[i]]
                                = designed[i + 1]
                /\ Len(log) >= 4
                /\ \A n \in 1 .. 4 : log[n] = <<"bypass", n - 1, TRUE>>
                /\ \A n \in 5 .. Len(log) :
                      /\ log[n][1] = "bypass" => log[n][3] = FALSE
                      /\ log[n] = <<"bypass", log[n][2], FALSE>> =>
                            log[n - 1] = <<"coefficients", log[n][2], FALSE>>

\* stage 2, bypassed by a call with slope 0 while it held the coefficients
\* of an earlier 48 dB/Oct design at 20 Hz, is active again after a call
\* with slope 2 and holds the new design
C23_Witness ==
    /\ lastCut["LowCut"].called
    /\ lastCut["LowCut"].slope = 2
    /\ lastCut["LowCut"].before[2].order = 8
    /\ lastCut["LowCut"].before[2].freq = 20
    /\ lastCut["LowCut"].before[0].order = 2
    /\ ~Cascade("LowCut").bypassed[2]
    /\ Cascade("LowCut").bypassed[3]
    /\ heap[Cascade("LowCut").coefficients[2]].order = 6
    /\ heap[Cascade("LowCut").coefficients[2]].freq = 1000

\* ------------------------------------------------------------------ C24
\* the stage indices at which a call read the designed coefficient array
IndicesRead(log) ==
    {log[n][2] : n \in {k \in 1 .. Len(log) : log[k][1] = "coefficients"}}

\* C24: updateCutFilter never indexes the designed coefficient array out
\* of bounds: for every slope s in 0..3 the array designed with order
\* (s + 1) * 2 has at least s + 1 entries, and update<Index> reads it at
\* exactly the indices 0..s.
C24_IndicesInBounds ==
    \A pos \in CutPositions :
        lastCut[pos].called =>
            LET s == lastCut[pos].slope
                designed == lastCut[pos].coefficients
            IN  /\ s \in Slopes
                /\ Len(designed) >= s + 1
                /\ \A n \in 1 .. Len(designed) :
                      designed[n].order = (s + 1) * 2
                /\ IndicesRead(lastCut[pos].log) = 0 .. s
                /\ \A i \in IndicesRead(lastCut[pos].log) :
                      i + 1 \in DOMAIN designed

\* the low-cut cascade was updated from a 48 dB/Oct design, all four
\* entries read, and the high-cut cascade from a 12 dB/Oct design of one
\* entry
C24_Witness ==
    /\ lastCut["LowCut"].called
    /\ lastCut["LowCut"].slope = 3
    /\ Len(lastCut["LowCut"].coefficients) = 4
    /\ IndicesRead(lastCut["LowCut"].log) = 0 .. 3
    /\ lastCut["HighCut"].called
    /\ lastCut["HighCut"].slope = 0
    /\ Len(lastCut["HighCut"].coefficients) = 1
    /\ IndicesRead(lastCut["HighCut"].log) = {0}

\* ------------------------------------------------------------------ C25
\* C25: makePeakFilter, makeLowCutFilter and makeHighCutFilter are never
\* invoked with a sample rate of 0, in any order of host calls,
\* setStateInformation or the construction of the editor before the first
\* prepareToPlay included: every designed coefficient object was designed at
\* a positive sample rate.
C25_DesignRatePositive ==
    \A o \in DOMAIN heap : (heap[o].kind # "unity") => heap[o].rate > 0

\* ------------------------------------------------------------------ C26
\* C26: for every bus layout isBusesLayoutSupported accepts, processBlock
\* only uses channel indices smaller than the channel count of the buffer:
\* getSingleChannelBlock (0) and (1) are in range and the jassert
\* buffer.getNumChannels () > channelToUse holds in the update of both
\* collectors.
C26_ChannelIndicesInRange ==
    /\ "getSingleChannelBlock: channel < numChannels" \notin jasserts
    /\ "buffer.getNumChannels() > channelToUse" \notin jasserts

\* ------------------------------------------------------------------ C27
\* C27: leftChannelFifo collects the samples of the buffer channel that
\* leftChain filters (channel 0) and rightChannelFifo those of the channel
\* that rightChain filters (channel 1), so that the blocks the display pulls
\* from the left FIFO are the output of the left chain.
C27_CollectorsMatchChains ==
    /\ collected["leftChannelFifo"] \in {"none", "left"}
    /\ collected["rightChannelFifo"] \in {"none", "right"}

\* ------------------------------------------------------------------ C28
\* C28: the drain loop of timerCallback terminates: whenever
\* getNumCompleteBuffersAvailable () > 0 was found, the pull of that
\* iteration succeeds and lowers the count by one, so with a producer that
\* pushes finitely many blocks the loop exits, and the FIFO is empty at the
\* moment the loop exits.
C28_DrainLoopTerminates ==
    /\ []((dPc = "pull" /\ cPc = "finish") => cRead.blockSize1 > 0)
    /\ [][/\ (D_DrainPull /\ cPc = "finish") =>
                /\ pullOKs' = pullOKs + 1
                /\ getNumReady(validStart', validEnd')
                      = getNumAvailableForReading - 1
          /\ (D_DrainTest /\ dPc' = "cas") =>
                (getNumAvailableForReading = 0 /\ validStart' = validEnd')
         ]_vars
    /\ ((dPc = "drain") ~> (dPc = "cas"))

\* the loop has left with the FIFO empty after pulling every block the
\* audio thread pushed, in an earlier callback and while it ran
C28_Witness ==
    /\ dPc = "cas"
    /\ dRun.ran
    /\ pullOKs >= 3
    /\ pushOKs = pullOKs
    /\ pPc = "idle"
    /\ validStart = validEnd
    /\ out = Blk(pullOKs)

====
